---- MODULE Spec2Model ----
(***************************************************************************)
(* Model of WeightedSumModel.py, a Streamlit script.  The script is run    *)
(* from top to bottom on every user interaction (a new upload, an edited   *)
(* weight, a pressed button).  What survives from one run to the next is   *)
(* the widget state (uploaded files, number inputs) and the decode cache   *)
(* of load_raster; every other name of the script is rebuilt by the run.   *)
(* A state of the model is the page as one run leaves it.                  *)
(*                                                                         *)
(* Weights are integers in units of 1e-6, grid cells are small integers,   *)
(* so a cell of the combined grid is in units of 1e-6 as well.             *)
(***************************************************************************)
EXTENDS Integers, Sequences, FiniteSets, TLC

VARIABLES
    uploaded_files,   \* the file_uploader's value: a sequence of file ids
    cache,            \* st.cache_data store of load_raster: file id -> grid
    raster_data,      \* the dict built by the upload loop (insertion ordered)
    deleted,          \* TRUE once the run executed `del raster_data`
    widget,           \* value of each rendered number_input: layer name -> weight
    weights,          \* the dict `weights` built by the run
    combined_array,   \* the array the run computed and drew, or None
    messages,         \* what the run reported (st.error / st.warning / st.success)
    download_button,  \* TRUE iff the run rendered the "Download GeoTIFF" button
    clicked,          \* the interaction that triggered the run
    written,          \* what the run handed to the GeoTIFF writer, or None
    load_log          \* the load_raster calls of the run, in order

vars == <<uploaded_files, cache, raster_data, deleted, widget, weights,
          combined_array, messages, download_button, clicked, written,
          load_log>>

\* Python's None / an unbound name; grids are non-empty sequences of rows.
None == <<>>

\* ------------------------------------------------------------- bounds
MaxBatch == 3        \* most files in the uploader at a time
MaxCacheBatch == 2   \* the same, in the session that fills the cache

\* ---------------------------------------------------- program constants
max_entries == 5     \* @st.cache_data(max_entries=5)
One == 1000000       \* the literal 1.0, in weight units of 1e-6
min_value == 0       \* number_input(min_value=0.0)
max_value == 1000000 \* number_input(max_value=1.0)
Atol == 1            \* np.isclose default atol = 1e-8, in units of 1e-8
RtolInv == 100000    \* np.isclose default rtol = 1e-5, as its inverse

\* ------------------------------------------------------ uploaded sources
\* What the raster decode collaborator makes of each source the user can
\* upload: band 1 as a grid plus the source's metadata, or a failure.
Meta(dtype, count) == [crs |-> "EPSG:4326", dtype |-> dtype, count |-> count]

FileTable ==
    <<[name |-> "A", valid |-> TRUE,  data |-> <<<<1, 2>>, <<3, 4>>>>, meta |-> Meta("uint8", 1)],
      [name |-> "B", valid |-> TRUE,  data |-> <<<<4, 3>>, <<2, 1>>>>, meta |-> Meta("int16", 3)],
      [name |-> "C", valid |-> FALSE, data |-> None,                   meta |-> None],
      [name |-> "A", valid |-> TRUE,  data |-> <<<<2, 1>>>>,           meta |-> Meta("float64", 1)],
      [name |-> "E", valid |-> TRUE,  data |-> <<<<0, 1>>, <<1, 0>>>>, meta |-> Meta("uint8", 2)],
      [name |-> "D", valid |-> TRUE,  data |-> <<<<1, 0>>, <<0, 1>>, <<1, 1>>>>, meta |-> Meta("uint8", 1)],
      [name |-> "F", valid |-> TRUE,  data |-> <<<<3, 3>>, <<0, 0>>>>, meta |-> Meta("uint8", 1)]>>

FileIds == 1..Len(FileTable)
CoreFiles == 1..5

\* The weights a user types into a number input (two of them out of range).
Typed == {-100000, 0, 300000, 499989, 499990, 500000, 1000000, 1100000}

\* Upload batches: sequences of distinct sources.
Batches(universe, maxlen) ==
    {s \in UNION {[1..n -> universe] : n \in 0..maxlen} :
        \A i, j \in DOMAIN s : i # j => s[i] # s[j]}

\* A line the run reports on the page.
Msg(kind, name) == [kind |-> kind, name |-> name]

\* ------------------------------------------------------------ the dict
EmptyDict == [keys |-> <<>>, val |-> <<>>]

\* d[k] = v of a Python dict: a new key goes last, an old key keeps its place.
dict_set(d, k, v) ==
    [keys |-> IF k \in DOMAIN d.val THEN d.keys ELSE Append(d.keys, k),
     val  |-> (k :> v) @@ d.val]

\* -------------------------------------------------------- load_raster
\* Faulty variant: a cache without max_entries, which never drops an entry.
cache_store_unbounded(c, f, data) == {(f :> data) @@ c}

\* The cache keeps a decoded grid; a full cache first drops one entry.  Which
\* entry is dropped is the caching library's choice: every choice is an
\* outcome.
cache_store(c, f, data) ==
    IF Cardinality(DOMAIN c) < max_entries
    THEN {(f :> data) @@ c}
    ELSE {(f :> data) @@ [g \in (DOMAIN c) \ {v} |-> c[g]] : v \in DOMAIN c}

\* One call of the cached load_raster with cache c.  A hit returns the stored
\* grid and reads nothing.  A miss reads and decodes the file; a decode
\* failure raises and stores nothing; a decoded grid is stored.
load_raster(f, c) ==
    IF f \in DOMAIN c
    THEN {[raised |-> FALSE, data |-> c[f], cache |-> c, read |-> FALSE]}
    ELSE IF ~FileTable[f].valid
    THEN {[raised |-> TRUE, data |-> None, cache |-> c, read |-> TRUE]}
    ELSE {[raised |-> FALSE, data |-> FileTable[f].data, cache |-> c2, read |-> TRUE] :
              c2 \in cache_store(c, f, FileTable[f].data)}

\* The body of the upload loop for one file: try / except around the load.
upload_step(f, st) ==
    {[raster_data |-> IF r.raised THEN st.raster_data
                      ELSE dict_set(st.raster_data, FileTable[f].name, r.data),
      cache |-> r.cache,
      log |-> Append(st.log, [file |-> f, cached |-> f \in DOMAIN st.cache,
                              read |-> r.read, raised |-> r.raised, data |-> r.data]),
      msgs |-> IF r.raised
               THEN st.msgs \cup {Msg("load_error", FileTable[f].name)}
               ELSE st.msgs] :
        r \in load_raster(f, st.cache)}

\* Faulty variant: the try / except around the whole loop instead of inside
\* it, so that the first source that fails to decode ends the loop.
RECURSIVE upload_loop_stop(_, _, _)
upload_loop_stop(files, i, st) ==
    IF i > Len(files) THEN {st}
    ELSE UNION {IF st2.log[Len(st2.log)].raised THEN {st2}
                ELSE upload_loop_stop(files, i + 1, st2) :
                    st2 \in upload_step(files[i], st)}

RECURSIVE upload_loop(_, _, _)
upload_loop(files, i, st) ==
    IF i > Len(files) THEN {st}
    ELSE UNION {upload_loop(files, i + 1, st2) : st2 \in upload_step(files[i], st)}

\* Step 1 of the script: the dict starts empty on every run.
Step1(files, c) ==
    IF files = <<>>
    THEN {[raster_data |-> EmptyDict, cache |-> c, log |-> <<>>,
           msgs |-> {Msg("please_upload", "")}]}
    ELSE upload_loop(files, 1, [raster_data |-> EmptyDict, cache |-> c,
                                log |-> <<>>, msgs |-> {}])

\* ------------------------------------------------------------- Step 2
\* Faulty variant: a number input without min_value and max_value.
number_input_unchecked(stored, typed) == typed

\* st.number_input(min_value=0.0, max_value=1.0): an edit outside the range
\* is not committed, the widget keeps its value.
number_input(stored, typed) ==
    IF min_value <= typed /\ typed <= max_value THEN typed ELSE stored

\* The weights dict of the run: one number input per key of raster_data.
\* A widget keeps the value the user gave it as long as it is rendered with
\* the same label and the same default 1.0 / len(raster_data); otherwise it
\* shows its default.
build_weights(d, w0) ==
    [k \in DOMAIN d.val |->
        IF k \in DOMAIN w0 /\ Cardinality(DOMAIN w0) = Len(d.keys)
        THEN w0[k]
        ELSE One \div Len(d.keys)]

\* sum(weights.values()), in the dict's order.
RECURSIVE sum_values(_, _, _)
sum_values(d, w, i) ==
    IF i > Len(d.keys) THEN 0 ELSE w[d.keys[i]] + sum_values(d, w, i + 1)

Abs(x) == IF x < 0 THEN -x ELSE x

\* Faulty variant: a comparison ten times as tolerant (rtol = 1e-4).
isclose_loose(a, b) == 100 * Abs(a - b) <= Atol + (100 * Abs(b)) \div 10000

\* np.isclose(a, b): |a - b| <= atol + rtol * |b|, with a and b in units of
\* 1e-6 and the comparison made in units of 1e-8.
isclose(a, b) == 100 * Abs(a - b) <= Atol + (100 * Abs(b)) \div RtolInv

\* ------------------------------------------------------ the weighted sum
Shape(g) == <<Len(g), Len(g[1])>>

\* Faulty variant: an accumulator that does not start from zero (np.ones).
ones(shape) == [i \in 1..shape[1] |-> [j \in 1..shape[2] |-> 1]]

zeros(shape) == [i \in 1..shape[1] |-> [j \in 1..shape[2] |-> 0]]

\* numpy accepts `acc += x` when x broadcasts to the shape of acc: each
\* dimension of x equals that of acc or is 1.  Otherwise it raises ValueError.
can_broadcast(xs, s) ==
    /\ (xs[1] = s[1] \/ xs[1] = 1)
    /\ (xs[2] = s[2] \/ xs[2] = 1)

\* Faulty variant: `combined_array = weight * data`, assignment for `+=`.
iadd_assign(acc, weight, data) ==
    [i \in 1..Len(acc) |-> [j \in 1..Len(acc[1]) |->
        weight * data[IF Len(data) = 1 THEN 1 ELSE i]
                     [IF Len(data[1]) = 1 THEN 1 ELSE j]]]

\* combined_array += weight * data
iadd(acc, weight, data) ==
    [i \in 1..Len(acc) |-> [j \in 1..Len(acc[1]) |->
        acc[i][j] + weight * data[IF Len(data) = 1 THEN 1 ELSE i]
                                 [IF Len(data[1]) = 1 THEN 1 ELSE j]]]

\* for layer_name, data in raster_data.items(): combined_array += ...
RECURSIVE weighted_sum_loop(_, _, _, _)
weighted_sum_loop(d, w, i, acc) ==
    IF i > Len(d.keys) THEN [raised |-> FALSE, array |-> acc]
    ELSE LET data == d.val[d.keys[i]]
         IN  IF ~can_broadcast(Shape(data), Shape(acc))
             THEN [raised |-> TRUE, array |-> None]
             ELSE weighted_sum_loop(d, w, i + 1, iadd(acc, w[d.keys[i]], data))

\* shape = next(iter(raster_data.values())).shape; zeros; the loop.
aggregate(d, w) == weighted_sum_loop(d, w, 1, zeros(Shape(d.val[d.keys[1]])))

\* ------------------------------------------------------------- export
\* The body of `if st.button("Download GeoTIFF")`: the metadata is read from
\* uploaded_files[0]; any exception is caught and reported.
download_geotiff(files, arr) ==
    IF FileTable[files[1]].valid
    THEN [raised |-> FALSE,
          payload |-> <<[meta |-> [FileTable[files[1]].meta EXCEPT
                                      !.dtype = "float32", !.count = 1],
                         data |-> arr,
                         ref |-> files[1]]>>]
    ELSE [raised |-> TRUE, payload |-> <<>>]

\* -------------------------------------------------------- the script
\* calc and dl are the values the two st.button calls return in this run.
Step2(s1, files, w0, calc, dl) ==
    LET d == s1.raster_data
        base == [raster_data |-> d, deleted |-> FALSE, cache |-> s1.cache,
                 widget |-> <<>>, weights |-> <<>>, combined_array |-> None,
                 messages |-> s1.msgs, download_button |-> FALSE,
                 written |-> <<>>, load_log |-> s1.log]
    IN  IF d.keys = <<>> THEN base
        ELSE
        LET w == build_weights(d, w0)
            ok == isclose(sum_values(d, w, 1), One)
            msgs1 == IF ok THEN s1.msgs ELSE s1.msgs \cup {Msg("sum_warning", "")}
            shown == [base EXCEPT !.widget = w, !.weights = w, !.messages = msgs1]
        IN  IF ~(calc /\ ok) THEN shown
            ELSE
            LET r == aggregate(d, w)
            IN  IF r.raised
                THEN [shown EXCEPT !.messages = msgs1 \cup {Msg("ValueError", "")}]
                ELSE
                LET done == [shown EXCEPT !.combined_array = r.array,
                                          !.deleted = TRUE,
                                          !.download_button = TRUE,
                                          !.messages = msgs1 \cup {Msg("calculated", "")}]
                IN  IF ~dl THEN done
                    ELSE
                    LET e == download_geotiff(files, r.array)
                    IN  [done EXCEPT !.written = e.payload,
                                     !.messages = done.messages \cup
                                        {IF e.raised THEN Msg("save_error", "")
                                         ELSE Msg("saved", "")}]

Script(files, c, w0, calc, dl) ==
    {Step2(s1, files, w0, calc, dl) : s1 \in Step1(files, c)}

\* The page after the run that interaction `what` triggered.
Rerun(files, w0, calc, dl, what) ==
    \E out \in Script(files, cache, w0, calc, dl) :
        /\ uploaded_files' = files
        /\ cache' = out.cache
        /\ raster_data' = out.raster_data
        /\ deleted' = out.deleted
        /\ widget' = out.widget
        /\ weights' = out.weights
        /\ combined_array' = out.combined_array
        /\ messages' = out.messages
        /\ download_button' = out.download_button
        /\ written' = out.written
        /\ load_log' = out.load_log
        /\ clicked' = what

\* ------------------------------------------------------------ actions
Init ==
    /\ uploaded_files = <<>>
    /\ cache = <<>>
    /\ raster_data = EmptyDict
    /\ deleted = FALSE
    /\ widget = <<>>
    /\ weights = <<>>
    /\ combined_array = None
    /\ messages = {Msg("please_upload", "")}
    /\ download_button = FALSE
    /\ clicked = "start"
    /\ written = <<>>
    /\ load_log = <<>>

\* The user drops a batch of further files on the uploader; the widget
\* appends them to its list.
Upload(universe, maxlen) ==
    \E b \in Batches(universe \ {uploaded_files[i] : i \in DOMAIN uploaded_files},
                     maxlen - Len(uploaded_files)) :
        /\ b # <<>>
        /\ Rerun(uploaded_files \o b, widget, FALSE, FALSE, "upload")

UploadBatch == Upload(CoreFiles, MaxBatch)

UploadAny == Upload(FileIds, MaxCacheBatch)

\* The user removes one file from the uploader's list.
RemoveFile ==
    \E i \in DOMAIN uploaded_files :
        Rerun(SubSeq(uploaded_files, 1, i - 1) \o
              SubSeq(uploaded_files, i + 1, Len(uploaded_files)),
              widget, FALSE, FALSE, "remove")

\* The user edits one of the rendered number inputs.
SetWeight ==
    \E k \in DOMAIN widget, t \in Typed :
        LET w1 == [widget EXCEPT ![k] = number_input(widget[k], t)]
        IN  /\ w1 # widget
            /\ Rerun(uploaded_files, w1, FALSE, FALSE, "weight")

\* The user presses "Calculate Suitability Scores" (rendered with Step 2).
ClickCalculate ==
    /\ DOMAIN widget # {}
    /\ Rerun(uploaded_files, widget, TRUE, FALSE, "calculate")

\* The user presses "Download GeoTIFF" (rendered by a successful calculation).
\* The run it triggers finds the Calculate button not pressed.
ClickDownload ==
    /\ download_button
    /\ Rerun(uploaded_files, widget, FALSE, TRUE, "download")

Next == UploadBatch \/ RemoveFile \/ SetWeight \/ ClickCalculate \/ ClickDownload

Spec == Init /\ [][Next]_vars

\* A session that only uploads, over enough sources to fill the cache.
NextCache == UploadAny \/ RemoveFile

SpecCache == Init /\ [][NextCache]_vars
\* ================================================================ claims
\* Helpers of the statements below: they restate what the claims speak of
\* (sets of layers, closed-form sums) without using the script's own loops.
Names == DOMAIN raster_data.val

Failed(msg) == \E m \in messages : m.kind = msg

Decoded == {i \in DOMAIN uploaded_files : FileTable[uploaded_files[i]].valid}

DecodedNames == {FileTable[uploaded_files[i]].name : i \in Decoded}

\* The grid of the last uploaded source of that name that decodes.
LastGrid(name) ==
    LET I == {i \in Decoded : FileTable[uploaded_files[i]].name = name}
    IN  FileTable[uploaded_files[CHOOSE i \in I : \A j \in I : j <= i]].data

RECURSIVE SumOver(_, _)
SumOver(S, term) ==
    IF S = {} THEN 0
    ELSE LET k == CHOOSE x \in S : TRUE IN term[k] + SumOver(S \ {k}, term)

SameShape == \A a, b \in Names : Shape(raster_data.val[a]) = Shape(raster_data.val[b])

\* sum_k w[k] * layers[k].grid[i][j]
CellSum(w, i, j) ==
    SumOver(Names, [k \in Names |-> w[k] * raster_data.val[k][i][j]])

\* |sum(w) - 1.0| within the tolerance of 1.001e-5, in units of 1e-6.
WithinTolerance(w) ==
    Abs(SumOver(DOMAIN w, w) - One) <= 10

Orders(q) ==
    {p \in [DOMAIN q -> {q[i] : i \in DOMAIN q}] :
        \A i, j \in DOMAIN p : i # j => p[i] # p[j]}

\* ---------------------------------------------------------------- C1
\* C1: a run triggered by the Calculate button computes a combined grid only
\* when the entered weights sum to 1.0 within tolerance; otherwise it reports
\* the weight check and computes nothing.  The weights of the sum are the
\* values that were in the number inputs when the button was pressed: each
\* cell of the grid is the sum of entered weight times layer cell.
C1_WeightGate ==
    [][clicked' = "calculate" =>
        /\ weights' = widget
        /\ ~WithinTolerance(widget) =>
              /\ Failed("sum_warning")'
              /\ combined_array' = None
              /\ ~download_button'
        /\ WithinTolerance(widget) =>
              /\ ~Failed("sum_warning")'
              /\ combined_array' # None \/ Failed("ValueError")'
        /\ (combined_array' # None /\ SameShape') =>
              \A i \in DOMAIN combined_array', j \in DOMAIN combined_array'[1] :
                  combined_array'[i][j] = CellSum(widget, i, j)'
    ]_vars

\* Weights 0.3 and 0.3 were entered, Calculate was pressed, nothing computed.
C1_Witness ==
    /\ clicked = "calculate"
    /\ Cardinality(Names) = 2
    /\ \A k \in Names : weights[k] = 300000
    /\ Failed("sum_warning")
    /\ combined_array = None

\* ---------------------------------------------------------------- C2
\* C2: when Calculate is pressed with normalized weights, the aggregation
\* fails and produces no grid if two layers differ in shape, and succeeds
\* if all layers share one shape.
C2_ShapeConformance ==
    (clicked = "calculate" /\ WithinTolerance(weights)) =>
        /\ ~SameShape => (Failed("ValueError") /\ combined_array = None)
        /\ SameShape => combined_array # None

\* ---------------------------------------------------------------- C3
\* C3: over same-shape layers the combined grid has the layers' shape and
\* each cell is the sum over all layers of weight times cell; A = [[1,2],[3,4]]
\* and B = [[4,3],[2,1]] at 0.5 / 0.5 give 2.5 everywhere; weight 1.0 on one
\* layer and 0.0 on the others gives that layer's grid.
C3_Linearity ==
    (combined_array # None /\ SameShape) =>
        /\ \A k \in Names : Shape(combined_array) = Shape(raster_data.val[k])
        /\ \A i \in DOMAIN combined_array, j \in DOMAIN combined_array[1] :
               combined_array[i][j] = CellSum(weights, i, j)
        /\ ( /\ Names = {"A", "B"}
             /\ raster_data.val["A"] = <<<<1, 2>>, <<3, 4>>>>
             /\ raster_data.val["B"] = <<<<4, 3>>, <<2, 1>>>>
             /\ weights["A"] = 500000 /\ weights["B"] = 500000 ) =>
               combined_array = <<<<2500000, 2500000>>, <<2500000, 2500000>>>>
        /\ \A k \in Names :
               (weights[k] = One /\ \A o \in Names \ {k} : weights[o] = 0) =>
                   \A i \in DOMAIN combined_array, j \in DOMAIN combined_array[1] :
                       combined_array[i][j] = One * raster_data.val[k][i][j]

\* The concrete scenario: A and B at 0.5 / 0.5.
C3_Witness ==
    /\ Names = {"A", "B"}
    /\ raster_data.val["A"] = <<<<1, 2>>, <<3, 4>>>>
    /\ weights["A"] = 500000 /\ weights["B"] = 500000
    /\ combined_array = <<<<2500000, 2500000>>, <<2500000, 2500000>>>>

\* ---------------------------------------------------------------- C4
\* C4 as stated: after the upload loop the dict holds as many entries as
\* sources decoded, and no entry under the identifier of a failed source.
C4_OneEntryPerSource ==
    /\ Len(raster_data.keys) = Cardinality(Decoded)
    /\ \A i \in DOMAIN uploaded_files :
           ~FileTable[uploaded_files[i]].valid =>
               FileTable[uploaded_files[i]].name \notin Names

\* C4 amended: every source of the batch is tried, a source that fails to
\* decode is reported with its identifier, and the dict holds exactly one
\* entry for each distinct identifier among the sources that decoded, with
\* the grid of the last such source.
C4_PartialDecode ==
    /\ Len(load_log) = Len(uploaded_files)
    /\ \A i \in DOMAIN uploaded_files :
           /\ load_log[i].file = uploaded_files[i]
           /\ ~FileTable[uploaded_files[i]].valid =>
                  Msg("load_error", FileTable[uploaded_files[i]].name) \in messages
    /\ Names = DecodedNames
    /\ Len(raster_data.keys) = Cardinality(DecodedNames)
    /\ \A k \in Names : raster_data.val[k] = LastGrid(k)

\* Three sources, the first of them corrupt, two entries.
C4_Witness ==
    /\ Len(uploaded_files) = 3
    /\ ~FileTable[uploaded_files[1]].valid
    /\ Cardinality(Decoded) = 2
    /\ Len(raster_data.keys) = 2
    /\ Failed("load_error")

\* ---------------------------------------------------------------- C5
\* C5: the run triggered by the Download button hands the writer the grid of
\* the aggregation, with the reference metadata set to float32 and one band.
C5_ExportRuns ==
    clicked = "download" =>
        /\ Len(written) = 1
        /\ written[1].data = aggregate(raster_data, weights).array
        /\ written[1].meta.dtype = "float32"
        /\ written[1].meta.count = 1

\* ---------------------------------------------------------------- C6
\* C6: a run that ends in a weight or shape error, triggered by an edit or a
\* button, leaves the loaded layers and the combined grid on the page as
\* they were.
C6_RetryKeepsState ==
    [][(/\ clicked' \in {"weight", "calculate", "download"}
        /\ Failed("sum_warning")' \/ Failed("ValueError")') =>
            /\ raster_data' = raster_data
            /\ combined_array' = combined_array
    ]_vars

\* ---------------------------------------------------------------- C7
\* C7: with at least one layer loaded, the run triggered by the Download
\* button obtains its reference metadata, from a source that decoded.
C7_ExportMetadata ==
    (clicked = "download" /\ Names # {}) =>
        /\ Len(written) = 1
        /\ \E i \in Decoded : written[1].ref = uploaded_files[i]

\* ---------------------------------------------------------------- C8
\* C8: over same-shape layers, feeding the layers to the weighted sum in any
\* other order gives the same grid, of the same shape.
C8_OrderIndependence ==
    (combined_array # None /\ SameShape) =>
        \A p \in Orders(raster_data.keys) :
            LET r == aggregate([keys |-> p, val |-> raster_data.val], weights)
            IN  /\ ~r.raised
                /\ r.array = combined_array
                /\ Shape(r.array) = Shape(combined_array)

\* Three layers with weights that are not all the same.
C8_Witness ==
    /\ combined_array # None
    /\ SameShape
    /\ Cardinality(Names) = 3
    /\ \E a, b \in Names : weights[a] # weights[b]

\* ---------------------------------------------------------------- C9
\* C9: the cache never holds more than max_entries grids; a load of a source
\* that is in the cache returns the decoded grid and reads nothing; every
\* grid the loop put into the dict is the decoded grid of its source, whether
\* or not the cache still holds that source.
C9_CacheBounded ==
    /\ Cardinality(DOMAIN cache) <= max_entries
    /\ \A f \in DOMAIN cache : cache[f] = FileTable[f].data
    /\ \A n \in DOMAIN load_log :
           load_log[n].cached =>
               /\ ~load_log[n].read
               /\ ~load_log[n].raised
               /\ load_log[n].data = FileTable[load_log[n].file].data
    /\ \A k \in Names : raster_data.val[k] = LastGrid(k)

\* The cache is full and a source loaded by this run has already been
\* dropped from it, while its grid is in the dict.
C9_Witness ==
    /\ Cardinality(DOMAIN cache) = max_entries
    /\ \E i \in Decoded :
           /\ uploaded_files[i] \notin DOMAIN cache
           /\ raster_data.val[FileTable[uploaded_files[i]].name] =
                  FileTable[uploaded_files[i]].data

\* --------------------------------------------------------------- C10
\* C10: when the run entered the weighted sum, the dict is non-empty, the
\* weights dict has exactly the dict's keys, and every weight is in [0, 1];
\* a run in which no source decoded never enters the weighted sum.
C10_WeightsCoverLayers ==
    /\ (combined_array # None \/ Failed("ValueError")) =>
           /\ raster_data.keys # <<>>
           /\ DOMAIN weights = {raster_data.keys[i] : i \in DOMAIN raster_data.keys}
           /\ \A k \in DOMAIN weights : 0 <= weights[k] /\ weights[k] <= One
    /\ Decoded = {} =>
           /\ combined_array = None
           /\ ~Failed("ValueError")
           /\ ~download_button
           /\ weights = <<>>

\* A grid was computed although one of the uploaded sources failed to decode.
C10_Witness ==
    /\ combined_array # None
    /\ Cardinality(Decoded) < Len(uploaded_files)
    /\ \E k \in Names : weights[k] # One \div Cardinality(Names)
====
